---- MODULE Spec2Model ----
(***************************************************************************)
(* Reco-Buddy: the AIS / broker-PNL reconciliation engine (class           *)
(* RecoBuddy) and the "Reconcile Data" button of main() that drives it.    *)
(*                                                                         *)
(* Line 159 of the source lacks the closing parenthesis of range(...).     *)
(* The model reads the statement as the one next to it (line 160):         *)
(* self.ais_data['ID'] = range(1, len(self.ais_data) + 1).                 *)
(*                                                                         *)
(* Cells.  A cell that pandas holds as a missing value (None, NaN, NaT)    *)
(* is the empty tuple NA; a present value v is the 1-tuple <<v>>.  A stock *)
(* name is a tuple of one-character strings, so that str.upper, str.strip, *)
(* the 5-character substring test and the sorted order of groupby keys are *)
(* computed rather than assumed.  Raw numeric and date cells, as typed in  *)
(* the data editor, are records [k |-> "num" | "text" | "blank", v |-> n]. *)
(* Dates are day numbers.                                                  *)
(***************************************************************************)
EXTENDS Integers, Sequences, FiniteSets, TLC

\* ------------------------------------------------------------------ bounds
\* The longest AIS table and the longest CG table typed into the editors.
MaxAis == 2
MaxCg == 2
\* The number of times the button is pressed in one browser session.
MaxRuns == 3

\* ------------------------------------------------------------------- cells
NA == <<>>
Val(v) == <<v>>
IsNA(c) == c = <<>>

Num(n) == [k |-> "num", v |-> n]
Text == [k |-> "text", v |-> 0]
Blank == [k |-> "blank", v |-> 0]

\* pd.to_numeric(..., errors='coerce'): an unparsable or empty cell is NaN.
to_numeric(c) == IF c.k = "num" THEN Val(c.v) ELSE NA

\* pd.to_datetime(..., errors='coerce'): an unparsable or empty cell is NaT.
to_datetime(c) == IF c.k = "num" THEN Val(c.v) ELSE NA

\* The sentinel the level-4 match row carries in its four date columns.
Multiple == Val(0)

\* --------------------------------------------------------------- characters
\* The characters of the names, in code-point order (space < comma < A-Z < a-z).
Alphabet ==
  << " ", ",",
     "A", "B", "C", "D", "E", "F", "G", "H", "I", "J", "K", "L", "M",
     "N", "O", "P", "Q", "R", "S", "T", "U", "V", "W", "X", "Y", "Z",
     "a", "b", "c", "d", "e", "f", "g", "h", "i", "j", "k", "l", "m",
     "n", "o", "p", "q", "r", "s", "t", "u", "v", "w", "x", "y", "z" >>

Ord(c) == CHOOSE k \in 1..Len(Alphabet) : Alphabet[k] = c

\* str.upper on one character.
UpperChar(c) == IF Ord(c) > 28 THEN Alphabet[Ord(c) - 26] ELSE c

Upper(s) == [k \in 1..Len(s) |-> UpperChar(s[k])]

\* str.strip: leading and trailing whitespace removed.
RECURSIVE LStrip(_)
LStrip(s) == IF s # <<>> /\ Head(s) = " " THEN LStrip(Tail(s)) ELSE s

RECURSIVE RStrip(_)
RStrip(s) ==
  IF s # <<>> /\ s[Len(s)] = " " THEN RStrip(SubSeq(s, 1, Len(s) - 1)) ELSE s

Strip(s) == RStrip(LStrip(s))

\* Python's < on two strings: lexicographic by code point.
RECURSIVE StrLess(_, _)
StrLess(s, t) ==
  IF t = <<>> THEN FALSE
  ELSE IF s = <<>> THEN TRUE
  ELSE IF Head(s) = Head(t) THEN StrLess(Tail(s), Tail(t))
  ELSE Ord(Head(s)) < Ord(Head(t))

\* `sub in s`
Contains(s, sub) ==
  \E k \in 0..(Len(s) - Len(sub)) : SubSeq(s, k + 1, k + Len(sub)) = sub

\* ', '.join(names)
RECURSIVE Join(_)
Join(names) ==
  IF names = <<>> THEN <<>>
  ELSE IF Len(names) = 1 THEN names[1]
  ELSE names[1] \o <<",", " ">> \o Join(Tail(names))

\* ------------------------------------------------------------------- names
TCS == <<"T", "C", "S">>
INFY == <<"I", "N", "F", "Y">>
RIL == <<"R", "I", "L">>
RELIANCE == <<"R", "E", "L", "I", "A", "N", "C", "E">>
RELIANCE_IND == RELIANCE \o <<" ", "I", "N", "D">>
RELIANCE_INDUSTRIES == RELIANCE_IND \o <<"U", "S", "T", "R", "I", "E", "S">>
MAHARASHTRA == <<"M", "A", "H", "A", "R", "A", "S", "H", "T", "R", "A">>
BANK == <<"B", "A", "N", "K">>
MAHARASHTRA_BANK == MAHARASHTRA \o <<" ">> \o BANK
MAHABANK == <<"M", "A", "H", "A">> \o BANK
BANK_OF_MAHARASHTRA == BANK \o <<" ", "O", "F", " ">> \o MAHARASHTRA
HDFC == <<"H", "D", "F", "C">>
HDFC_BANK == HDFC \o <<" ">> \o BANK
HDFCBANK == HDFC \o BANK
LIC == <<"L", "I", "C">>
LIFE_INSURANCE_CORP ==
  <<"L", "I", "F", "E", " ", "I", "N", "S", "U", "R", "A", "N", "C", "E",
    " ", "C", "O", "R", "P">>
MARUTI == <<"M", "A", "R", "U", "T", "I">>
MAROTI == <<"M", "A", "R", "O", "T", "I">>
WIPRO == <<"W", "I", "P", "R", "O">>
WIPRA == <<"W", "I", "P", "R", "A">>
EMPTY == <<>>
tcs_padded == <<" ", "t", "c", "s">>
blank_name == <<" ", " ">>

\* ------------------------------------------------------ fuzzy_match_stocks
\* The abbreviation dictionary, in its insertion order.
abbreviations ==
  << [key |-> RELIANCE,
      values |-> {RIL, RELIANCE_IND, RELIANCE_INDUSTRIES}],
     [key |-> MAHARASHTRA_BANK,
      values |-> {MAHABANK, BANK_OF_MAHARASHTRA}],
     [key |-> HDFC_BANK, values |-> {HDFCBANK}],
     [key |-> LIC, values |-> {LIFE_INSURANCE_CORP}] >>

\* fuzz.token_set_ratio on the names of the model that reach it (the library
\* function's values: <<name1, name2, score>>).
FuzzTable ==
  {
     <<TCS, INFY, 0>>, <<TCS, RIL, 0>>, <<TCS, RELIANCE, 18>>,
     <<TCS, RELIANCE_IND, 13>>, <<TCS, MARUTI, 22>>, <<TCS, MAROTI, 22>>,
     <<TCS, WIPRO, 0>>, <<TCS, WIPRA, 0>>, <<TCS, LIC, 33>>,
     <<TCS, HDFC_BANK, 17>>, <<TCS, HDFCBANK, 18>>, <<INFY, TCS, 0>>,
     <<INFY, RIL, 29>>, <<INFY, RELIANCE, 33>>, <<INFY, RELIANCE_IND, 25>>,
     <<INFY, MARUTI, 20>>, <<INFY, MAROTI, 20>>, <<INFY, WIPRO, 22>>,
     <<INFY, WIPRA, 22>>, <<INFY, LIC, 29>>, <<INFY, HDFC_BANK, 31>>,
     <<INFY, HDFCBANK, 17>>, <<RIL, TCS, 0>>, <<RIL, INFY, 29>>,
     <<RIL, RELIANCE_IND, 27>>, <<RIL, MARUTI, 44>>, <<RIL, MAROTI, 44>>,
     <<RIL, WIPRO, 25>>, <<RIL, WIPRA, 25>>, <<RIL, LIC, 33>>,
     <<RIL, HDFC_BANK, 0>>, <<RIL, HDFCBANK, 0>>, <<RELIANCE, TCS, 18>>,
     <<RELIANCE, INFY, 33>>, <<RELIANCE, MARUTI, 29>>, <<RELIANCE, MAROTI, 29>>,
     <<RELIANCE, WIPRO, 15>>, <<RELIANCE, WIPRA, 31>>, <<RELIANCE, LIC, 55>>,
     <<RELIANCE, HDFC_BANK, 35>>, <<RELIANCE, HDFCBANK, 25>>, <<RELIANCE_IND, TCS, 13>>,
     <<RELIANCE_IND, INFY, 25>>, <<RELIANCE_IND, RIL, 27>>, <<RELIANCE_IND, MARUTI, 11>>,
     <<RELIANCE_IND, MAROTI, 11>>, <<RELIANCE_IND, WIPRO, 24>>, <<RELIANCE_IND, WIPRA, 35>>,
     <<RELIANCE_IND, LIC, 40>>, <<RELIANCE_IND, HDFC_BANK, 29>>, <<RELIANCE_IND, HDFCBANK, 30>>,
     <<MARUTI, TCS, 22>>, <<MARUTI, INFY, 20>>, <<MARUTI, RIL, 44>>,
     <<MARUTI, RELIANCE, 14>>, <<MARUTI, RELIANCE_IND, 11>>, <<MARUTI, MAROTI, 83>>,
     <<MARUTI, WIPRO, 18>>, <<MARUTI, WIPRA, 18>>, <<MARUTI, LIC, 22>>,
     <<MARUTI, HDFC_BANK, 13>>, <<MARUTI, HDFCBANK, 14>>, <<MAROTI, TCS, 22>>,
     <<MAROTI, INFY, 20>>, <<MAROTI, RIL, 44>>, <<MAROTI, RELIANCE, 14>>,
     <<MAROTI, RELIANCE_IND, 11>>, <<MAROTI, MARUTI, 83>>, <<MAROTI, WIPRO, 36>>,
     <<MAROTI, WIPRA, 18>>, <<MAROTI, LIC, 22>>, <<MAROTI, HDFC_BANK, 13>>,
     <<MAROTI, HDFCBANK, 14>>, <<WIPRO, TCS, 0>>, <<WIPRO, INFY, 22>>,
     <<WIPRO, RIL, 25>>, <<WIPRO, RELIANCE, 15>>, <<WIPRO, RELIANCE_IND, 24>>,
     <<WIPRO, MARUTI, 18>>, <<WIPRO, MAROTI, 36>>, <<WIPRO, WIPRA, 80>>,
     <<WIPRO, LIC, 25>>, <<WIPRO, HDFC_BANK, 0>>, <<WIPRO, HDFCBANK, 0>>,
     <<WIPRA, TCS, 0>>, <<WIPRA, INFY, 22>>, <<WIPRA, RIL, 25>>,
     <<WIPRA, RELIANCE, 31>>, <<WIPRA, RELIANCE_IND, 35>>, <<WIPRA, MARUTI, 18>>,
     <<WIPRA, MAROTI, 18>>, <<WIPRA, WIPRO, 80>>, <<WIPRA, LIC, 25>>,
     <<WIPRA, HDFC_BANK, 14>>, <<WIPRA, HDFCBANK, 15>>, <<LIC, TCS, 33>>,
     <<LIC, INFY, 29>>, <<LIC, RIL, 33>>, <<LIC, RELIANCE, 55>>,
     <<LIC, RELIANCE_IND, 40>>, <<LIC, MARUTI, 22>>, <<LIC, MAROTI, 22>>,
     <<LIC, WIPRO, 25>>, <<LIC, WIPRA, 25>>, <<LIC, HDFC_BANK, 17>>,
     <<LIC, HDFCBANK, 18>>, <<HDFC_BANK, TCS, 17>>, <<HDFC_BANK, INFY, 31>>,
     <<HDFC_BANK, RIL, 0>>, <<HDFC_BANK, RELIANCE, 35>>, <<HDFC_BANK, RELIANCE_IND, 29>>,
     <<HDFC_BANK, MARUTI, 13>>, <<HDFC_BANK, MAROTI, 13>>, <<HDFC_BANK, WIPRO, 0>>,
     <<HDFC_BANK, WIPRA, 14>>, <<HDFC_BANK, LIC, 17>>, <<HDFCBANK, TCS, 18>>,
     <<HDFCBANK, INFY, 17>>, <<HDFCBANK, RIL, 0>>, <<HDFCBANK, RELIANCE, 25>>,
     <<HDFCBANK, RELIANCE_IND, 30>>, <<HDFCBANK, MARUTI, 14>>, <<HDFCBANK, MAROTI, 14>>,
     <<HDFCBANK, WIPRO, 0>>, <<HDFCBANK, WIPRA, 15>>, <<HDFCBANK, LIC, 18>>
  }

\* fuzz.token_set_ratio(name1, name2): 0 when an argument is None or has no
\* letter or digit, else the library's score.
token_set_ratio(n1, n2) ==
  IF IsNA(n1) \/ IsNA(n2) THEN 0
  ELSE IF n1[1] = <<>> \/ n2[1] = <<>> THEN 0
  ELSE (CHOOSE t \in FuzzTable : t[1] = n1[1] /\ t[2] = n2[1])[3]

\* Some 5 consecutive characters of s1 occur in s2 (lines 169-173).
CommonSubstring(s1, s2) ==
  /\ Len(s1) >= 5
  /\ Len(s2) >= 5
  /\ \E k \in 0..(Len(s1) - 5) : Contains(s2, SubSeq(s1, k + 1, k + 5))

AbbreviationHit(n1, n2) ==
  \E k \in 1..Len(abbreviations) :
    \/ (n1 = Val(abbreviations[k].key) /\ ~IsNA(n2)
        /\ n2[1] \in abbreviations[k].values)
    \/ (n2 = Val(abbreviations[k].key) /\ ~IsNA(n1)
        /\ n1[1] \in abbreviations[k].values)

\* fuzzy_match_stocks raises TypeError: len() of a missing name (line 169).
\* len(name1) is evaluated first; len(name2) only when len(name1) >= 5.
FuzzyRaises(n1, n2) ==
  /\ n1 # n2
  /\ \/ IsNA(n1)
     \/ (Len(n1[1]) >= 5 /\ IsNA(n2))

\* fuzzy_match_stocks(name1, name2), for arguments it does not raise on.
fuzzy_match_stocks(n1, n2) ==
  IF n1 = n2 THEN 100
  ELSE IF ~IsNA(n2) /\ CommonSubstring(n1[1], n2[1]) THEN 90
  ELSE IF AbbreviationHit(n1, n2) THEN 95
  ELSE token_set_ratio(n1, n2)

\* ----------------------------------------------------------------- columns
NameA == "Stock Name (AIS)"
NameC == "Stock Name (CG)"
QtyA == "Quantity (AIS)"
QtyC == "Quantity (CG)"
SalesA == "Sales Value (AIS)"
SalesC == "Sales Value (CG)"
SaleDateA == "Sale Date (AIS)"
SaleDateC == "Sale Date (CG)"
PurValA == "Purchase Value (AIS)"
PurValC == "Purchase Value (CG)"
PurDateA == "Purchase Date (AIS)"
PurDateC == "Purchase Date (CG)"

\* The columns the two data editors of main() offer.
AisColumns == {NameA, QtyA, SalesA, SaleDateA, PurValA, PurDateA}
CgColumns == {NameC, QtyC, SalesC, SaleDateC, PurValC, PurDateC}

\* The columns the instructions of main() do not mark [Optional].
RequiredColumns == {NameA, QtyA, SalesA, SaleDateA, NameC, QtyC, SalesC, SaleDateC}
OptionalColumns == {PurValA, PurDateA, PurValC, PurDateC}

\* ------------------------------------------------------------------ inputs
\* One row as typed: a name cell, and raw quantity, sales value, sale date,
\* purchase value and purchase date cells.
Row(name, qty, sv, sd) ==
  [name |-> name, qty |-> qty, sv |-> sv, sd |-> sd, pv |-> Num(50), pd |-> Num(1)]

FullSchema == {<<AisColumns, CgColumns>>}

\* Both tables complete, or one column missing from one of them.
OneColumnShort ==
  FullSchema
    \cup {<<AisColumns \ {c}, CgColumns>> : c \in AisColumns}
    \cup {<<AisColumns, CgColumns \ {c}>> : c \in CgColumns}

\* The families of inputs explored: exact names with split lots and dates,
\* abbreviations and near names, dirty cells, and incomplete tables.
Universes ==
  << [ais |-> {Row(Val(TCS), Num(5), Num(100), Num(1)),
               Row(Val(TCS), Num(5), Num(120), Blank),
               Row(Val(TCS), Num(10), Num(100), Num(1)),
               Row(Val(INFY), Num(5), Num(100), Num(1))},
      cg |-> {Row(Val(tcs_padded), Num(5), Num(100), Num(2)),
              Row(Val(TCS), Num(5), Num(90), Num(3)),
              Row(Val(TCS), Num(10), Num(200), Num(1)),
              Row(Val(RIL), Num(5), Num(100), Num(1))},
      schemas |-> FullSchema],
     [ais |-> {Row(Val(RELIANCE), Num(10), Num(100), Num(1)),
               Row(Val(RIL), Num(10), Num(100), Num(1)),
               Row(Val(MARUTI), Num(5), Num(100), Num(1)),
               Row(Val(WIPRO), Num(5), Num(100), Num(1))},
      cg |-> {Row(Val(RELIANCE), Num(5), Num(100), Num(1)),
              Row(Val(RELIANCE), Num(10), Num(110), Num(3)),
              Row(Val(MAROTI), Num(5), Num(100), Num(1)),
              Row(Val(WIPRA), Num(5), Num(100), Num(1))},
      schemas |-> FullSchema],
     [ais |-> {Row(NA, Num(5), Num(100), Num(1)),
               Row(Val(blank_name), Num(5), Num(100), Num(1)),
               Row(Val(TCS), Text, Num(100), Num(1)),
               Row(Val(TCS), Num(5), Blank, Text)},
      cg |-> {Row(NA, Num(5), Num(100), Num(1)),
              Row(Val(EMPTY), Num(10), Num(100), Num(1)),
              Row(Val(TCS), Num(5), Text, Num(1)),
              Row(Val(RELIANCE), Blank, Num(100), Blank)},
      schemas |-> FullSchema],
     [ais |-> {Row(Val(TCS), Num(5), Num(100), Num(1)),
               Row(Val(TCS), Num(5), Num(100), Blank)},
      cg |-> {Row(Val(TCS), Num(5), Num(100), Num(1)),
              Row(Val(TCS), Num(10), Num(100), Num(1))},
      schemas |-> OneColumnShort] >>

SeqsUpTo(S, n) == UNION {[1..k -> S] : k \in 0..n}

\* ------------------------------------------------------------------- state
VARIABLES
  ais_in, cg_in,        \* the rows of the two data editors
  ais_cols, cg_cols,    \* the columns of the two tables handed to the engine
  ais_data, cg_data,    \* RecoBuddy.ais_data, .cg_data (NA is None)
  mapped_data,          \* RecoBuddy.mapped_data
  stock_totals,         \* RecoBuddy.stock_totals
  unmapped_ais,         \* RecoBuddy.unmapped_ais
  unmapped_cg,          \* RecoBuddy.unmapped_cg
  unmatched_ais,        \* match_records: the shrinking AIS pool
  unmatched_cg,         \* match_records: the shrinking CG pool
  matches, match_id,    \* match_records: the match rows so far, the next id
  iter,                 \* the AIS frame the running loop iterates (its snapshot)
  cg_groups,            \* level 4: the CG frame cg_groups was built from
  i,                    \* position of the running loop
  pc,                   \* where the run stands
  err,                  \* the exception that ended the run
  message,              \* st.success / st.error shown by main()
  used,                 \* per match row, the IDs of the records it consumed
  history               \* the earlier button presses of this session: for each its
                        \* tables, how it ended, and the result tables it left

vars ==
  << ais_in, cg_in, ais_cols, cg_cols, ais_data, cg_data, mapped_data,
     stock_totals, unmapped_ais, unmapped_cg, unmatched_ais, unmatched_cg,
     matches, match_id, iter, cg_groups, i, pc, err, message, used, history >>

inputs == <<ais_in, cg_in, ais_cols, cg_cols>>
results == <<mapped_data, stock_totals, unmapped_ais, unmapped_cg>>
locals == <<unmatched_ais, unmatched_cg, matches, match_id, iter, cg_groups, i, used>>

NoErr == [type |-> "none", what |-> ""]
Raise(type, what) == [type |-> type, what |-> what]

\* RecoBuddy.__init__, and the editors holding what the user typed.
Init ==
  /\ \E u \in 1..Len(Universes) :
       /\ ais_in \in SeqsUpTo(Universes[u].ais, MaxAis)
       /\ cg_in \in SeqsUpTo(Universes[u].cg, MaxCg)
       /\ \E schema \in Universes[u].schemas :
            ais_cols = schema[1] /\ cg_cols = schema[2]
  /\ ais_data = NA
  /\ cg_data = NA
  /\ mapped_data = NA
  /\ stock_totals = NA
  /\ unmapped_ais = NA
  /\ unmapped_cg = NA
  /\ unmatched_ais = <<>>
  /\ unmatched_cg = <<>>
  /\ matches = <<>>
  /\ match_id = 1
  /\ iter = <<>>
  /\ cg_groups = <<>>
  /\ i = 1
  /\ pc = "idle"
  /\ err = NoErr
  /\ message = ""
  /\ used = <<>>
  /\ history = <<>>

\* --------------------------------------------------------------- load_data
\* The first column of `need` that is not among `have`, "" when none is.
FirstAbsent(need, have) ==
  IF \E k \in 1..Len(need) : need[k] \notin have
  THEN need[CHOOSE k \in 1..Len(need) :
              need[k] \notin have /\ \A j \in 1..(k - 1) : need[j] \in have]
  ELSE ""

\* .str.upper().str.strip() on one name cell; None stays None.
Clean(name) == IF IsNA(name) THEN NA ELSE Val(Strip(Upper(name[1])))

\* The preprocessing of one table (lines 133-160): the clean name, the
\* coerced dates and numbers of the columns the table has, the 1-based ID.
\* A column the table lacks reads as missing through row.get(col, None).
Preprocess(rows, cols, qty, sv, sd, pv, pd) ==
  [k \in 1..Len(rows) |->
     [ID |-> k,
      name |-> rows[k].name,
      clean |-> Clean(rows[k].name),
      qty |-> IF qty \in cols THEN to_numeric(rows[k].qty) ELSE NA,
      sv |-> IF sv \in cols THEN to_numeric(rows[k].sv) ELSE NA,
      sd |-> IF sd \in cols THEN to_datetime(rows[k].sd) ELSE NA,
      pv |-> IF pv \in cols THEN to_numeric(rows[k].pv) ELSE NA,
      pd |-> IF pd \in cols THEN to_datetime(rows[k].pd) ELSE NA]]

\* A table copied and given its 'Stock Name Clean' column only (line 133).
WithClean(rows) ==
  [k \in 1..Len(rows) |->
     [f \in DOMAIN rows[k] \cup {"clean"} |->
        IF f = "clean" THEN Clean(rows[k].name) ELSE rows[k][f]]]

\* The column whose lookup raises KeyError in load_data, "" when none does.
LoadMissing(acols, ccols) == FirstAbsent(<<NameA, NameC>>, acols \cup ccols)

\* The branch of main() taken by the button (line 504).
BothProvided(a, c) == a # <<>> /\ c # <<>>

\* Mutation: load_data resetting the result tables of the last run.
Reconcile_ClearsResults ==
  /\ pc = "idle"
  /\ BothProvided(ais_in, cg_in)
  /\ IF LoadMissing(ais_cols, cg_cols) # ""
     THEN /\ pc' = "failed"
          /\ err' = Raise("KeyError", LoadMissing(ais_cols, cg_cols))
          /\ ais_data' = IF NameA \in ais_cols THEN Val(WithClean(ais_in)) ELSE Val(ais_in)
          /\ cg_data' = Val(cg_in)
     ELSE /\ pc' = "loaded"
          /\ err' = NoErr
          /\ ais_data' =
               Val(Preprocess(ais_in, ais_cols, QtyA, SalesA, SaleDateA, PurValA, PurDateA))
          /\ cg_data' =
               Val(Preprocess(cg_in, cg_cols, QtyC, SalesC, SaleDateC, PurValC, PurDateC))
  /\ mapped_data' = NA
  /\ stock_totals' = NA
  /\ unmapped_ais' = NA
  /\ unmapped_cg' = NA
  /\ UNCHANGED <<inputs, history, locals, message>>

\* The button with data in both tables: load_data (lines 506, 127-160).
Reconcile ==
  /\ pc = "idle"
  /\ BothProvided(ais_in, cg_in)
  /\ IF LoadMissing(ais_cols, cg_cols) # ""
     THEN /\ pc' = "failed"
          /\ err' = Raise("KeyError", LoadMissing(ais_cols, cg_cols))
          /\ ais_data' = IF NameA \in ais_cols THEN Val(WithClean(ais_in)) ELSE Val(ais_in)
          /\ cg_data' = Val(cg_in)
     ELSE /\ pc' = "loaded"
          /\ err' = NoErr
          /\ ais_data' =
               Val(Preprocess(ais_in, ais_cols, QtyA, SalesA, SaleDateA, PurValA, PurDateA))
          /\ cg_data' =
               Val(Preprocess(cg_in, cg_cols, QtyC, SalesC, SaleDateC, PurValC, PurDateC))
  /\ UNCHANGED <<inputs, history, results, locals, message>>

\* The button with an empty table: st.error, no run (lines 509-510).
ReconcileRejected ==
  /\ pc = "idle"
  /\ ~BothProvided(ais_in, cg_in)
  /\ pc' = "rejected"
  /\ message' = "Please provide data in both tables before reconciling"
  /\ UNCHANGED <<inputs, history, ais_data, cg_data, results, locals, err>>

\* match_records keeping the match list and the counter of the last run.
MatchRecordsStart_KeepsMatches ==
  /\ pc = "loaded"
  /\ unmatched_ais' = ais_data[1]
  /\ unmatched_cg' = cg_data[1]
  /\ iter' = ais_data[1]
  /\ i' = 1
  /\ pc' = "L1"
  /\ UNCHANGED <<inputs, history, ais_data, cg_data, results, matches, match_id, used,
                 cg_groups, err, message>>

\* match_records up to its first loop (lines 195-213).
MatchRecordsStart ==
  /\ pc = "loaded"
  /\ unmatched_ais' = ais_data[1]
  /\ unmatched_cg' = cg_data[1]
  /\ matches' = <<>>
  /\ match_id' = 1
  /\ used' = <<>>
  /\ iter' = ais_data[1]
  /\ i' = 1
  /\ pc' = "L1"
  /\ UNCHANGED <<inputs, history, ais_data, cg_data, results, cg_groups, err, message>>

\* ----------------------------------------------------------- match_records
\* Mutation: two missing values comparing equal.
CellEq_MissingEqual(x, y) == x = y

\* == on two cells inside a pandas mask or an `and`: never true of a missing
\* value (NaN == NaN is False; a None name compares False in a mask).
CellEq(x, y) == ~IsNA(x) /\ ~IsNA(y) /\ x = y

\* Mutation: the tolerance read as "less than a day".
WithinOneDay_Strict(x, y) ==
  /\ x # <<>>
  /\ y # <<>>
  /\ (IF x[1] >= y[1] THEN x[1] - y[1] ELSE y[1] - x[1]) < 1

\* abs(cg date - ais date) <= pd.Timedelta(days=1); False when either is NaT.
WithinOneDay(x, y) ==
  /\ ~IsNA(x)
  /\ ~IsNA(y)
  /\ (IF x[1] >= y[1] THEN x[1] - y[1] ELSE y[1] - x[1]) <= 1

\* The mask of level 1 (lines 217-221) on AIS row a and CG row c.
Level1Mask(a, c) ==
  /\ CellEq(c.clean, a.clean)
  /\ CellEq(c.qty, a.qty)
  /\ WithinOneDay(c.sd, a.sd)

\* Mutation: level 2 comparing the names only.
Level2Mask_NameOnly(a, c) == CellEq(c.clean, a.clean)

\* Mutation: level 2 keeping the date test of level 1.
Level2Mask_Dated(a, c) ==
  /\ CellEq(c.clean, a.clean)
  /\ CellEq(c.qty, a.qty)
  /\ WithinOneDay(c.sd, a.sd)

\* The mask of level 2 (lines 254-257).
Level2Mask(a, c) ==
  /\ CellEq(c.clean, a.clean)
  /\ CellEq(c.qty, a.qty)

\* Mutation: matches_found.iloc[-1], the last of the rows the mask keeps.
FirstIndex_Last(kept) ==
  IF kept = {} THEN 0 ELSE CHOOSE k \in kept : \A j \in kept : k >= j

\* matches_found.iloc[0]: of the pool positions a mask keeps, the first; 0
\* when matches_found is empty.
FirstIndex(kept) ==
  IF kept = {} THEN 0 ELSE CHOOSE k \in kept : \A j \in kept : k <= j

\* Mutation: == for != in the filter, the matched row kept and the rest lost.
DropID_Inverted(pool, id) == SelectSeq(pool, LAMBDA r : r.ID = id)

\* frame[frame['ID'] != id]: the rows kept, in their order.
DropID(pool, id) == SelectSeq(pool, LAMBDA r : r.ID # id)

\* Mutation: only the first record of the group removed.
DropIDs_First(pool, ids) ==
  SelectSeq(pool, LAMBDA r : r.ID # (CHOOSE x \in ids : \A y \in ids : x <= y))

\* frame[~frame['ID'].isin(ids)]
DropIDs(pool, ids) == SelectSeq(pool, LAMBDA r : r.ID \notin ids)

IDsOf(rows) == {rows[k].ID : k \in 1..Len(rows)}

Level1Label == [label |-> "Level 1 (Exact Name, Qty, Date)", score |-> NA]
Level2Label == [label |-> "Level 2 (Exact Name, Qty)", score |-> NA]
Level3Label(score) == [label |-> "Level 3 (Fuzzy Name: %, Qty)", score |-> Val(score)]
Level4Label(score) == [label |-> "Level 4 (Aggregate: %)", score |-> Val(score)]

\* The match row of levels 1-3 (lines 229-244, 264-279, 303-318).
match_record(id, type, a, c) ==
  [id |-> id, type |-> type,
   name_ais |-> a.name, name_cg |-> c.name,
   qty_ais |-> a.qty, qty_cg |-> c.qty,
   sv_ais |-> a.sv, sv_cg |-> c.sv,
   sd_ais |-> a.sd, sd_cg |-> c.sd,
   pv_ais |-> a.pv, pv_cg |-> c.pv,
   pd_ais |-> a.pd, pd_cg |-> c.pd]

\* What one pass of a loop body does: the exception it raises, or the
\* position in the CG pool of the row it matches (0: none) and the score.
Raised(type, what) == [err |-> Raise(type, what), hit |-> 0, score |-> 0]
Outcome(hit, score) == [err |-> NoErr, hit |-> hit, score |-> score]

\* The columns a match row of levels 1-3 reads with row[...] (KeyError when
\* absent); the purchase columns are read with row.get and never raise.
RowColumns == <<NameA, NameC, QtyA, QtyC, SalesA, SalesC, SaleDateA, SaleDateC>>

\* One pass of the level-1 loop body (lines 214-250) for AIS row a.
Level1Pass(a, pool, have) ==
  IF SaleDateA \notin have THEN Raised("KeyError", SaleDateA)
  ELSE IF IsNA(a.sd) THEN Outcome(0, 0)
  ELSE IF FirstAbsent(<<QtyC, QtyA, SaleDateC>>, have) # ""
  THEN Raised("KeyError", FirstAbsent(<<QtyC, QtyA, SaleDateC>>, have))
  ELSE LET hit == FirstIndex({k \in 1..Len(pool) : Level1Mask(a, pool[k])}) IN
       IF hit = 0 THEN Outcome(0, 0)
       ELSE IF FirstAbsent(RowColumns, have) # ""
       THEN Raised("KeyError", FirstAbsent(RowColumns, have))
       ELSE Outcome(hit, 100)

\* One pass of the level-2 loop body (lines 254-284).
Level2Pass(a, pool, have) ==
  IF FirstAbsent(<<QtyC, QtyA>>, have) # ""
  THEN Raised("KeyError", FirstAbsent(<<QtyC, QtyA>>, have))
  ELSE LET hit == FirstIndex({k \in 1..Len(pool) : Level2Mask(a, pool[k])}) IN
       IF hit = 0 THEN Outcome(0, 0)
       ELSE IF FirstAbsent(RowColumns, have) # ""
       THEN Raised("KeyError", FirstAbsent(RowColumns, have))
       ELSE Outcome(hit, 100)

\* Mutation: the threshold of level 3 taken inclusive.
Level3Accepts_Inclusive(score, best_score, cq, aq) ==
  score >= 80 /\ cq # <<>> /\ cq = aq /\ score > best_score

\* Mutation: the threshold of level 3 raised to 90.
Level3Accepts_Above90(score, best_score, cq, aq) ==
  score > 90 /\ cq # <<>> /\ cq = aq /\ score > best_score

\* Mutation: a later CG row of equal score replaces the best match.
Level3Accepts_LastWins(score, best_score, cq, aq) ==
  score > 80 /\ cq # <<>> /\ cq = aq /\ score >= best_score

\* The condition of line 298 that makes a CG row the best match so far.
Level3Accepts(score, best_score, cq, aq) ==
  score > 80 /\ CellEq(cq, aq) /\ score > best_score

\* The inner loop of level 3 (lines 289-300) from position k of the pool on,
\* with best_match at position best (0: None) and best_score.
RECURSIVE Level3Scan(_, _, _, _, _, _)
Level3Scan(a, pool, have, k, best, best_score) ==
  IF k > Len(pool) THEN Outcome(best, best_score)
  ELSE IF FuzzyRaises(a.clean, pool[k].clean) THEN Raised("TypeError", "len")
  ELSE LET score == fuzzy_match_stocks(a.clean, pool[k].clean) IN
       IF score > 80 /\ FirstAbsent(<<QtyC, QtyA>>, have) # ""
       THEN Raised("KeyError", FirstAbsent(<<QtyC, QtyA>>, have))
       ELSE IF Level3Accepts(score, best_score, pool[k].qty, a.qty)
       THEN Level3Scan(a, pool, have, k + 1, k, score)
       ELSE Level3Scan(a, pool, have, k + 1, best, best_score)

\* One pass of the level-3 loop body (lines 288-323).
Level3Pass(a, pool, have) ==
  LET scan == Level3Scan(a, pool, have, 1, 0, 0) IN
  IF scan.err # NoErr \/ scan.hit = 0 THEN scan
  ELSE IF FirstAbsent(RowColumns, have) # ""
  THEN Raised("KeyError", FirstAbsent(RowColumns, have))
  ELSE scan

\* The tail shared by the loop bodies of levels 1-3: nothing, the exception,
\* or the match row appended and both records removed from their pools.
Apply(out, a, type) ==
  IF out.err # NoErr
  THEN /\ pc' = "failed"
       /\ err' = out.err
       /\ UNCHANGED <<unmatched_ais, unmatched_cg, matches, match_id, used, i>>
  ELSE /\ i' = i + 1
       /\ UNCHANGED <<pc, err>>
       /\ IF out.hit = 0
          THEN UNCHANGED <<unmatched_ais, unmatched_cg, matches, match_id, used>>
          ELSE /\ matches' =
                    Append(matches, match_record(match_id, type, a, unmatched_cg[out.hit]))
               /\ used' = Append(used, [ais |-> {a.ID}, cg |-> {unmatched_cg[out.hit].ID}])
               /\ unmatched_ais' = DropID(unmatched_ais, a.ID)
               /\ unmatched_cg' = DropID(unmatched_cg, unmatched_cg[out.hit].ID)
               /\ match_id' = match_id + 1

Have == ais_cols \cup cg_cols

\* Level 1, one AIS row of the frame the loop iterates.
Level1Row ==
  /\ pc = "L1"
  /\ i <= Len(iter)
  /\ Apply(Level1Pass(iter[i], unmatched_cg, Have), iter[i], Level1Label)
  /\ UNCHANGED <<inputs, history, ais_data, cg_data, results, iter, cg_groups, message>>

\* Level 1 exhausted: the level-2 loop starts on the AIS pool as it is now.
Level1Exit ==
  /\ pc = "L1"
  /\ i > Len(iter)
  /\ pc' = "L2"
  /\ iter' = unmatched_ais
  /\ i' = 1
  /\ UNCHANGED <<inputs, history, ais_data, cg_data, results, unmatched_ais, unmatched_cg,
                 matches, match_id, used, cg_groups, err, message>>

Level2Row ==
  /\ pc = "L2"
  /\ i <= Len(iter)
  /\ Apply(Level2Pass(iter[i], unmatched_cg, Have), iter[i], Level2Label)
  /\ UNCHANGED <<inputs, history, ais_data, cg_data, results, iter, cg_groups, message>>

Level2Exit ==
  /\ pc = "L2"
  /\ i > Len(iter)
  /\ pc' = "L3"
  /\ iter' = unmatched_ais
  /\ i' = 1
  /\ UNCHANGED <<inputs, history, ais_data, cg_data, results, unmatched_ais, unmatched_cg,
                 matches, match_id, used, cg_groups, err, message>>

Level3Row ==
  /\ pc = "L3"
  /\ i <= Len(iter)
  /\ LET out == Level3Pass(iter[i], unmatched_cg, Have) IN
       Apply(out, iter[i], Level3Label(out.score))
  /\ UNCHANGED <<inputs, history, ais_data, cg_data, results, iter, cg_groups, message>>

\* Level 3 exhausted: both pools are grouped by clean name (lines 327-328).
Level3Exit ==
  /\ pc = "L3"
  /\ i > Len(iter)
  /\ pc' = "L4"
  /\ iter' = unmatched_ais
  /\ cg_groups' = unmatched_cg
  /\ i' = 1
  /\ UNCHANGED <<inputs, history, ais_data, cg_data, results, unmatched_ais, unmatched_cg,
                 matches, match_id, used, err, message>>

\* ----------------------------------------------------------------- level 4
\* Series.sum(): the missing values are skipped, the empty sum is 0.
RECURSIVE SumCells(_)
SumCells(cells) ==
  IF cells = <<>> THEN 0
  ELSE (IF IsNA(Head(cells)) THEN 0 ELSE Head(cells)[1]) + SumCells(Tail(cells))

Column(rows, f) == [k \in 1..Len(rows) |-> rows[k][f]]

\* Series.unique(): the distinct values in order of first appearance.
RECURSIVE Unique(_)
Unique(xs) ==
  IF xs = <<>> THEN <<>>
  ELSE LET rest == Unique(SubSeq(xs, 1, Len(xs) - 1)) IN
       IF \E k \in 1..Len(rest) : rest[k] = xs[Len(xs)]
       THEN rest
       ELSE Append(rest, xs[Len(xs)])

\* The strings of S in ascending order.
RECURSIVE Sorted(_)
Sorted(S) ==
  IF S = {} THEN <<>>
  ELSE LET least == CHOOSE x \in S : \A y \in S \ {x} : StrLess(x, y) IN
       <<least>> \o Sorted(S \ {least})

\* The keys of frame.groupby('Stock Name Clean'): the distinct clean names,
\* sorted; rows whose key is missing belong to no group.
GroupKeys(rows) ==
  Sorted({rows[k].clean[1] : k \in {j \in 1..Len(rows) : ~IsNA(rows[j].clean)}})

\* The group of one key: its rows in frame order.
GetGroup(rows, key) == SelectSeq(rows, LAMBDA r : r.clean = Val(key))

\* The condition of line 337 that makes a CG group the best so far.
Level4Accepts(score, best_score) == score > 85 /\ score > best_score

\* The loop of lines 335-339 over the CG keys from position k on: the best
\* CG key so far (NA: None) and its score.
RECURSIVE Level4Scan(_, _, _, _, _)
Level4Scan(stock_name, keys, k, cg_match_name, best_score) ==
  IF k > Len(keys) THEN [name |-> cg_match_name, score |-> best_score]
  ELSE LET score == fuzzy_match_stocks(Val(stock_name), Val(keys[k])) IN
       IF Level4Accepts(score, best_score)
       THEN Level4Scan(stock_name, keys, k + 1, Val(keys[k]), score)
       ELSE Level4Scan(stock_name, keys, k + 1, cg_match_name, best_score)

\* `if cg_match_name:` (line 341): neither None nor the empty string.
Truthy(name) == ~IsNA(name) /\ name[1] # <<>>

\* The aggregate match row (lines 350-365).
aggregate_record(id, score, ais_group, cg_group) ==
  [id |-> id, type |-> Level4Label(score),
   name_ais |-> Val(Join(Unique([k \in 1..Len(ais_group) |-> ais_group[k].name[1]]))),
   name_cg |-> Val(Join(Unique([k \in 1..Len(cg_group) |-> cg_group[k].name[1]]))),
   qty_ais |-> Val(SumCells(Column(ais_group, "qty"))),
   qty_cg |-> Val(SumCells(Column(cg_group, "qty"))),
   sv_ais |-> Val(SumCells(Column(ais_group, "sv"))),
   sv_cg |-> Val(SumCells(Column(cg_group, "sv"))),
   sd_ais |-> Multiple, sd_cg |-> Multiple,
   pv_ais |-> Val(SumCells(Column(ais_group, "pv"))),
   pv_cg |-> Val(SumCells(Column(cg_group, "pv"))),
   pd_ais |-> Multiple, pd_cg |-> Multiple]

\* The exception building the aggregate row raises: a KeyError for a sales
\* column the table lacks, an AttributeError for group.get(col, 0).sum() on a
\* purchase value column the table lacks (0 has no sum).
AggregateRaises(have) ==
  IF FirstAbsent(<<SalesA, SalesC>>, have) # ""
  THEN Raise("KeyError", FirstAbsent(<<SalesA, SalesC>>, have))
  ELSE IF FirstAbsent(<<PurValA, PurValC>>, have) # ""
  THEN Raise("AttributeError", FirstAbsent(<<PurValA, PurValC>>, have))
  ELSE NoErr

\* Level 4, one AIS group (lines 330-371).  The AIS groups and the CG groups
\* are those of the pools as they were when level 3 ended.
Level4Group ==
  /\ pc = "L4"
  /\ i <= Len(GroupKeys(iter))
  /\ LET stock_name == GroupKeys(iter)[i]
         ais_group == GetGroup(iter, stock_name)
         best == Level4Scan(stock_name, GroupKeys(cg_groups), 1, NA, 0)
         cg_group == GetGroup(cg_groups, best.name[1])
     IN
       IF ~Truthy(best.name)
       THEN /\ i' = i + 1
            /\ UNCHANGED <<unmatched_ais, unmatched_cg, matches, match_id, used, pc, err>>
       ELSE IF FirstAbsent(<<QtyA, QtyC>>, Have) # ""
       THEN /\ pc' = "failed"
            /\ err' = Raise("KeyError", FirstAbsent(<<QtyA, QtyC>>, Have))
            /\ UNCHANGED <<unmatched_ais, unmatched_cg, matches, match_id, used, i>>
       ELSE IF SumCells(Column(ais_group, "qty")) # SumCells(Column(cg_group, "qty"))
       THEN /\ i' = i + 1
            /\ UNCHANGED <<unmatched_ais, unmatched_cg, matches, match_id, used, pc, err>>
       ELSE IF AggregateRaises(Have) # NoErr
       THEN /\ pc' = "failed"
            /\ err' = AggregateRaises(Have)
            /\ UNCHANGED <<unmatched_ais, unmatched_cg, matches, match_id, used, i>>
       ELSE /\ matches' =
                 Append(matches, aggregate_record(match_id, best.score, ais_group, cg_group))
            /\ used' = Append(used, [ais |-> IDsOf(ais_group), cg |-> IDsOf(cg_group)])
            /\ unmatched_ais' = DropIDs(unmatched_ais, IDsOf(ais_group))
            /\ unmatched_cg' = DropIDs(unmatched_cg, IDsOf(cg_group))
            /\ match_id' = match_id + 1
            /\ i' = i + 1
            /\ UNCHANGED <<pc, err>>
  /\ UNCHANGED <<inputs, history, ais_data, cg_data, results, iter, cg_groups, message>>

\* ------------------------------------------------------------------ results
\* The subtraction with its operands exchanged.
Minus_Swapped(a, b) == IF IsNA(a) \/ IsNA(b) THEN NA ELSE Val(b[1] - a[1])

\* a - b on two cells; missing when either is.
Minus(a, b) == IF IsNA(a) \/ IsNA(b) THEN NA ELSE Val(a[1] - b[1])

\* pd.DataFrame(matches) with its 'Sales Difference' column (lines 374-383).
WithSalesDifference(rows) ==
  [k \in 1..Len(rows) |->
     [f \in DOMAIN rows[k] \cup {"sales_diff"} |->
        IF f = "sales_diff" THEN Minus(rows[k].sv_ais, rows[k].sv_cg) ELSE rows[k][f]]]

\* frame.drop(columns=['Stock Name Clean', 'ID']) (lines 386-387).
DropHelpers(rows) ==
  [k \in 1..Len(rows) |-> [f \in DOMAIN rows[k] \ {"clean", "ID"} |-> rows[k][f]]]

\* create_stock_totals (lines 392-415): one row per 'Stock Name (AIS)' of the
\* match table, in sorted order; match rows without a name are in no group.
create_stock_totals(mapped) ==
  LET keys == Sorted({mapped[k].name_ais[1] :
                        k \in {j \in 1..Len(mapped) : ~IsNA(mapped[j].name_ais)}})
      Group(key) == SelectSeq(mapped, LAMBDA r : r.name_ais = Val(key))
  IN [k \in 1..Len(keys) |->
        LET group == Group(keys[k]) IN
        [name |-> keys[k],
         ais_qty |-> SumCells(Column(group, "qty_ais")),
         cg_qty |-> SumCells(Column(group, "qty_cg")),
         qty_diff |-> SumCells(Column(group, "qty_ais")) - SumCells(Column(group, "qty_cg")),
         ais_sales |-> SumCells(Column(group, "sv_ais")),
         cg_sales |-> SumCells(Column(group, "sv_cg")),
         sales_diff |-> SumCells(Column(group, "sv_ais")) - SumCells(Column(group, "sv_cg")),
         match_types |-> Unique(Column(group, "type"))]]

\* Level 4 exhausted: the four result tables are stored (lines 373-390) and
\* main() reports success (line 508).
Finish ==
  /\ pc = "L4"
  /\ i > Len(GroupKeys(iter))
  /\ mapped_data' = Val(WithSalesDifference(matches))
  /\ unmapped_ais' = Val(DropHelpers(unmatched_ais))
  /\ unmapped_cg' = Val(DropHelpers(unmatched_cg))
  /\ stock_totals' = Val(create_stock_totals(WithSalesDifference(matches)))
  /\ pc' = "done"
  /\ message' = "Reconciliation completed successfully!"
  /\ UNCHANGED <<inputs, history, ais_data, cg_data, locals, err>>

Next ==
  \/ Reconcile
  \/ ReconcileRejected
  \/ MatchRecordsStart
  \/ Level1Row
  \/ Level1Exit
  \/ Level2Row
  \/ Level2Exit
  \/ Level3Row
  \/ Level3Exit
  \/ Level4Group
  \/ Finish

Spec == Init /\ [][Next]_vars

\* ----------------------------------------------------------------- session
\* The engine lives in st.session_state (lines 456-457): one instance serves
\* every press of the button in a browser session.  Between two presses the
\* user retypes the editors (lines 472-500).

\* The tables typed between presses: a level-1 pair, a split lot matched in
\* aggregate, two split lots whose names sort against their input order, two
\* AIS names for one split CG lot, records without a quantity next to a
\* level-1 pair, a pair of unrelated names, a fuzzy pair, a row with no name,
\* an empty AIS table, and an AIS table without its name column.
SessionInputs ==
  { [ais |-> <<Row(Val(TCS), Num(5), Num(100), Num(1))>>,
     cg |-> <<Row(Val(tcs_padded), Num(5), Num(90), Num(2))>>,
     acols |-> AisColumns, ccols |-> CgColumns],
    [ais |-> <<Row(Val(TCS), Num(5), Num(100), Num(1)),
               Row(Val(TCS), Num(5), Num(120), Num(1))>>,
     cg |-> <<Row(Val(TCS), Num(10), Num(200), Num(1))>>,
     acols |-> AisColumns, ccols |-> CgColumns],
    [ais |-> <<Row(Val(TCS), Num(10), Num(100), Num(1)),
               Row(Val(INFY), Num(10), Num(100), Num(1))>>,
     cg |-> <<Row(Val(TCS), Num(5), Num(50), Num(1)),
              Row(Val(TCS), Num(5), Num(50), Num(1)),
              Row(Val(INFY), Num(5), Num(50), Num(1)),
              Row(Val(INFY), Num(5), Num(50), Num(1))>>,
     acols |-> AisColumns, ccols |-> CgColumns],
    [ais |-> <<Row(Val(RELIANCE), Num(10), Num(100), Num(1)),
               Row(Val(RIL), Num(10), Num(100), Num(1))>>,
     cg |-> <<Row(Val(RELIANCE), Num(5), Num(50), Num(1)),
              Row(Val(RELIANCE), Num(5), Num(50), Num(1))>>,
     acols |-> AisColumns, ccols |-> CgColumns],
    [ais |-> <<Row(Val(TCS), Text, Num(100), Num(1)),
               Row(Val(TCS), Num(5), Num(100), Num(1))>>,
     cg |-> <<Row(Val(TCS), Blank, Num(70), Num(1)),
              Row(Val(TCS), Num(5), Num(100), Num(1))>>,
     acols |-> AisColumns, ccols |-> CgColumns],
    [ais |-> <<Row(Val(INFY), Num(5), Num(100), Num(1))>>,
     cg |-> <<Row(Val(RIL), Num(5), Num(100), Num(1))>>,
     acols |-> AisColumns, ccols |-> CgColumns],
    [ais |-> <<Row(Val(RIL), Num(10), Num(100), Num(1))>>,
     cg |-> <<Row(Val(RELIANCE), Num(10), Num(110), Num(3))>>,
     acols |-> AisColumns, ccols |-> CgColumns],
    [ais |-> <<Row(NA, Num(5), Num(100), Num(1))>>,
     cg |-> <<Row(Val(TCS), Num(5), Num(100), Num(1))>>,
     acols |-> AisColumns, ccols |-> CgColumns],
    [ais |-> <<>>,
     cg |-> <<Row(Val(TCS), Num(5), Num(100), Num(1))>>,
     acols |-> AisColumns, ccols |-> CgColumns],
    [ais |-> <<Row(Val(TCS), Num(5), Num(100), Num(1))>>,
     cg |-> <<Row(Val(TCS), Num(5), Num(100), Num(1))>>,
     acols |-> AisColumns \ {NameA}, ccols |-> CgColumns] }

\* What the editors hold now, and one entry of the session's history.
Typed == [ais |-> ais_in, cg |-> cg_in, acols |-> ais_cols, ccols |-> cg_cols]
Press == [typed |-> Typed, pc |-> pc, results |-> results]

\* A new session: a fresh engine and the first tables.
InitSession ==
  /\ \E t \in SessionInputs :
       /\ ais_in = t.ais
       /\ cg_in = t.cg
       /\ ais_cols = t.acols
       /\ cg_cols = t.ccols
  /\ ais_data = NA
  /\ cg_data = NA
  /\ mapped_data = NA
  /\ stock_totals = NA
  /\ unmapped_ais = NA
  /\ unmapped_cg = NA
  /\ unmatched_ais = <<>>
  /\ unmatched_cg = <<>>
  /\ matches = <<>>
  /\ match_id = 1
  /\ iter = <<>>
  /\ cg_groups = <<>>
  /\ i = 1
  /\ pc = "idle"
  /\ err = NoErr
  /\ message = ""
  /\ used = <<>>
  /\ history = <<>>

\* After a press has ended (success, exception or rejection) the user retypes
\* the tables; the script reruns from the top with the same engine, whose
\* fields keep what the last press left in them.
EditTables ==
  /\ pc \in {"done", "failed", "rejected"}
  /\ Len(history) + 1 < MaxRuns
  /\ history' = Append(history, Press)
  /\ \E t \in SessionInputs :
       /\ ais_in' = t.ais
       /\ cg_in' = t.cg
       /\ ais_cols' = t.acols
       /\ cg_cols' = t.ccols
  /\ pc' = "idle"
  /\ err' = NoErr
  /\ message' = ""
  /\ UNCHANGED <<ais_data, cg_data, results, locals>>

NextSession ==
  \/ Next
  \/ EditTables

SpecSession == InitSession /\ [][NextSession]_vars

\* ------------------------------------------------------------------- names
\* fuzzy_match_stocks is called by levels 3 and 4 on the cleaned names of an
\* AIS and a CG record.  Runs on one AIS row and at most one CG row whose
\* names range over the abbreviation dictionary (key and alias, both orders)
\* and over the names fuzz.token_set_ratio is tabulated for.
AliasPairs ==
  UNION {{<<abbreviations[k].key, v>> : v \in abbreviations[k].values}
           \cup {<<v, abbreviations[k].key>> : v \in abbreviations[k].values} :
         k \in 1..Len(abbreviations)}

TabulatedNames ==
  {TCS, INFY, RIL, RELIANCE, RELIANCE_IND, MARUTI, MAROTI, WIPRO, WIPRA, LIC,
   HDFC_BANK, HDFCBANK}

NamePairs == AliasPairs \cup (TabulatedNames \X TabulatedNames)

InitNames ==
  /\ \E p \in NamePairs :
       /\ ais_in = <<Row(Val(p[1]), Num(5), Num(100), Num(1))>>
       /\ cg_in \in {<<>>,
                     <<Row(Val(p[2]), Num(5), Num(100), Num(9))>>,
                     <<Row(Val(p[2]), Num(10), Num(100), Num(9))>>}
  /\ ais_cols = AisColumns
  /\ cg_cols = CgColumns
  /\ ais_data = NA
  /\ cg_data = NA
  /\ mapped_data = NA
  /\ stock_totals = NA
  /\ unmapped_ais = NA
  /\ unmapped_cg = NA
  /\ unmatched_ais = <<>>
  /\ unmatched_cg = <<>>
  /\ matches = <<>>
  /\ match_id = 1
  /\ iter = <<>>
  /\ cg_groups = <<>>
  /\ i = 1
  /\ pc = "idle"
  /\ err = NoErr
  /\ message = ""
  /\ used = <<>>
  /\ history = <<>>

SpecNames == InitNames /\ [][Next]_vars

TypeOK ==
  /\ pc \in {"idle", "rejected", "loaded", "L1", "L2", "L3", "L4", "done", "failed"}
  /\ Len(matches) = Len(used)
  /\ match_id = Len(matches) + 1

\* ============================================================== properties
\* The records of the two loaded tables, by ID.
AisRec(id) == ais_data[1][id]
CgRec(id) == cg_data[1][id]

CoveredAis == UNION {used[m].ais : m \in 1..Len(used)}
CoveredCg == UNION {used[m].cg : m \in 1..Len(used)}

IsLevel(m, label) == matches[m].type.label = label.label
Level4Name == Level4Label(0)

\* C1: no input record of either side contributes to more than one match
\* row of a run: the records two distinct match rows consumed are disjoint.
C1_NoRecordReused ==
  \A m, n \in 1..Len(used) :
    m # n => used[m].ais \cap used[n].ais = {} /\ used[m].cg \cap used[n].cg = {}

\* C2: at the end of a run, on each side the records covered by some match
\* and the residual unmatched records are disjoint and together are exactly
\* the input records, and the counts add up to the number of input rows; the
\* stored unmatched tables are those residual records.
C2_Partition ==
  pc = "done" =>
    /\ CoveredAis \cap IDsOf(unmatched_ais) = {}
    /\ CoveredAis \cup IDsOf(unmatched_ais) = 1..Len(ais_in)
    /\ Cardinality(CoveredAis) + Len(unmapped_ais[1]) = Len(ais_in)
    /\ CoveredCg \cap IDsOf(unmatched_cg) = {}
    /\ CoveredCg \cup IDsOf(unmatched_cg) = 1..Len(cg_in)
    /\ Cardinality(CoveredCg) + Len(unmapped_cg[1]) = Len(cg_in)
    /\ \A k \in 1..Len(unmapped_ais[1]) :
         unmapped_ais[1][k].name = ais_in[unmatched_ais[k].ID].name
    /\ \A k \in 1..Len(unmapped_cg[1]) :
         unmapped_cg[1][k].name = cg_in[unmatched_cg[k].ID].name

C2_Witness ==
  /\ pc = "done"
  /\ CoveredAis # {} /\ unmatched_ais # <<>>
  /\ CoveredCg # {} /\ unmatched_cg # <<>>

\* The level-1 predicate as the specification words it: identical normalized
\* name, identical quantity, both sale dates present and at most a day apart.
C3_Level1Pair(a, c) ==
  /\ a.clean # NA /\ a.clean = c.clean
  /\ a.qty # NA /\ a.qty = c.qty
  /\ a.sd # NA /\ c.sd # NA
  /\ a.sd[1] - c.sd[1] \in {-1, 0, 1}

\* C3: an AIS record and a CG record that satisfy the level-1 predicate are
\* never consumed together by a match row of level 2, 3 or 4.
C3_LevelPrecedence ==
  \A m \in 1..Len(matches) :
    ~IsLevel(m, Level1Label) =>
      \A x \in used[m].ais, y \in used[m].cg : ~C3_Level1Pair(AisRec(x), CgRec(y))

\* A level-1 pair whose records went to different matches, one of them at a
\* later level.
C3_Witness ==
  /\ pc = "done"
  /\ \E m, n \in 1..Len(matches) :
       /\ m # n
       /\ ~IsLevel(m, Level1Label) \/ ~IsLevel(n, Level1Label)
       /\ \E x \in used[m].ais, y \in used[n].cg : C3_Level1Pair(AisRec(x), CgRec(y))

\* C4: once level 4 has emitted an aggregate row, no record that had the
\* clean name of a consumed AIS record (of a consumed CG record) when level 3
\* ended is still in the AIS (CG) pool, in the state right after the row is
\* emitted and up to the end of the run.
C4_AggregateAtomic ==
  \A m \in 1..Len(matches) :
    IsLevel(m, Level4Name) =>
      /\ \A k \in 1..Len(iter) :
           (\E x \in used[m].ais : AisRec(x).clean = iter[k].clean)
             => iter[k].ID \notin IDsOf(unmatched_ais)
      /\ \A k \in 1..Len(cg_groups) :
           (\E y \in used[m].cg : CgRec(y).clean = cg_groups[k].clean)
             => cg_groups[k].ID \notin IDsOf(unmatched_cg)

C4_Witness ==
  /\ pc = "done"
  /\ \E m \in 1..Len(matches) :
       /\ IsLevel(m, Level4Name)
       /\ Cardinality(used[m].ais) >= 2
       /\ unmatched_cg # <<>>

\* C5: a run on tables that have every required column and lack an optional
\* one never ends in an exception.
C5_OptionalColumnAbsent ==
  (RequiredColumns \subseteq Have /\ ~(OptionalColumns \subseteq Have)) => pc # "failed"

\* C6: a run on tables that have every required column never ends in an
\* exception, whatever their cells hold.
C6_DirtyCellsTolerated ==
  RequiredColumns \subseteq Have => pc # "failed"

\* C7: a run requested on tables that lack a required column ends in an
\* exception that names a missing required column (whatever the class the
\* exception has), and stores no result table.
C7_SchemaError ==
  (~(RequiredColumns \subseteq Have) /\ pc \in {"done", "failed"}) =>
    /\ pc = "failed"
    /\ err.what \in RequiredColumns \ Have
    /\ mapped_data = NA

\* C8: a reconciliation requested with exactly one table empty is not
\* refused; it ends with an empty match table, an empty unmatched table for
\* the empty side and every record of the other side unmatched.
C8_EmptySide ==
  ((ais_in = <<>>) # (cg_in = <<>>) /\ RequiredColumns \subseteq Have /\ pc # "idle") =>
    /\ pc # "rejected"
    /\ message # "Please provide data in both tables before reconciling"
    /\ pc = "done" =>
         /\ mapped_data = Val(<<>>)
         /\ Len(unmapped_ais[1]) = Len(ais_in)
         /\ Len(unmapped_cg[1]) = Len(cg_in)

\* The records of one side that carry the clean name N.
C9_Named(rows, N) == {k \in 1..Len(rows) : rows[k].clean = Val(N)}

C9_Total(rows, ids) ==
  SumCells([k \in 1..Len(rows) |-> IF k \in ids THEN rows[k].qty ELSE NA])

C9_Names(rows) == {rows[k].clean[1] : k \in {j \in 1..Len(rows) : rows[j].clean # NA}}

\* The split-lot case of name N: several AIS records and some CG records of
\* that name with equal total quantity, no AIS quantity equal to a CG
\* quantity, and no other name of the run scoring above 80 against N.
C9_SplitLot(N) ==
  /\ Cardinality(C9_Named(ais_data[1], N)) >= 2
  /\ C9_Named(cg_data[1], N) # {}
  /\ C9_Total(ais_data[1], C9_Named(ais_data[1], N))
       = C9_Total(cg_data[1], C9_Named(cg_data[1], N))
  /\ \A x \in C9_Named(ais_data[1], N), y \in C9_Named(cg_data[1], N) :
       AisRec(x).qty = NA \/ AisRec(x).qty # CgRec(y).qty
  /\ \A M \in (C9_Names(ais_data[1]) \cup C9_Names(cg_data[1])) \ {N} :
       /\ fuzzy_match_stocks(Val(M), Val(N)) <= 80
       /\ fuzzy_match_stocks(Val(N), Val(M)) <= 80

\* C9: a run on complete tables that holds a split lot of name N ends
\* normally, with exactly one match row touching the records of that name:
\* a level-4 row that consumes them all and carries the two equal sums.
C9_SplitLotsResolved ==
  (RequiredColumns \subseteq Have /\ pc \in {"done", "failed"}) =>
    \A N \in C9_Names(ais_data[1]) :
      C9_SplitLot(N) =>
        /\ pc = "done"
        /\ \E m \in 1..Len(matches) :
             /\ IsLevel(m, Level4Name)
             /\ used[m].ais = C9_Named(ais_data[1], N)
             /\ used[m].cg = C9_Named(cg_data[1], N)
             /\ matches[m].qty_ais = Val(C9_Total(ais_data[1], used[m].ais))
             /\ matches[m].qty_cg = matches[m].qty_ais
             /\ \A n \in 1..Len(matches) :
                  (used[n].ais \cap used[m].ais # {} \/ used[n].cg \cap used[m].cg # {})
                    => n = m
        /\ C9_Named(ais_data[1], N) \cap IDsOf(unmatched_ais) = {}
        /\ C9_Named(cg_data[1], N) \cap IDsOf(unmatched_cg) = {}

\* An AIS record whose clean name scores at most 80 against the clean name
\* of every CG record of the run.
C10_NoCounterpart(a) ==
  \A y \in 1..Len(cg_data[1]) :
    /\ ~FuzzyRaises(a.clean, CgRec(y).clean)
    /\ fuzzy_match_stocks(a.clean, CgRec(y).clean) <= 80

\* C10: such a record is consumed by no match row at any point of the run,
\* and when the run ends it is in the unmatched AIS table.
C10_NoCounterpartStaysUnmatched ==
  pc \in {"L1", "L2", "L3", "L4", "done"} =>
    \A x \in 1..Len(ais_data[1]) :
      C10_NoCounterpart(AisRec(x)) =>
        /\ x \notin CoveredAis
        /\ x \in IDsOf(unmatched_ais)
        /\ pc = "done" =>
             /\ err = NoErr
             /\ \E k \in 1..Len(unmatched_ais) :
                  /\ unmatched_ais[k].ID = x
                  /\ unmapped_ais[1][k].name = ais_in[x].name

\* Such a record left unmatched next to a CG record of its quantity, in a
\* run that matched another record.
C10_Witness ==
  /\ pc = "done"
  /\ matches # <<>>
  /\ \E x \in 1..Len(ais_data[1]) :
       /\ C10_NoCounterpart(AisRec(x))
       /\ x \in IDsOf(unmatched_ais)
       /\ \E k \in 1..Len(unmatched_cg) : CellEq(unmatched_cg[k].qty, AisRec(x).qty)

\* The press that opened the session, run on a fresh engine.
FirstPress == history[1]
SameAsFirst == Len(history) >= 1 /\ FirstPress.pc = "done" /\ Typed = FirstPress.typed

\* C11: a successful run on an engine that has served earlier presses leaves
\* the four result tables a fresh engine leaves for the same two tables:
\* whenever the tables of a completed run are those of the session's first
\* (fresh, successful) press, its results are the results of that press,
\* whatever was run in between.
C11_ResultsOfThisRunOnly ==
  (pc = "done" /\ SameAsFirst) => results = FirstPress.results

\* A third press repeats the first after a different, successful second one
\* that left matches behind; the repeated run has matches of its own.
C11_Witness ==
  /\ pc = "done"
  /\ Len(history) = 2
  /\ SameAsFirst
  /\ history[2].pc = "done"
  /\ history[2].typed # Typed
  /\ history[2].results # FirstPress.results
  /\ history[2].results[1] # Val(<<>>)
  /\ mapped_data # Val(<<>>)

\* The two names are a key of the abbreviation dictionary and one of its
\* aliases, in either order.
IsAliasPair(n1, n2) == ~IsNA(n1) /\ ~IsNA(n2) /\ <<n1[1], n2[1]>> \in AliasPairs

\* C12: fuzzy_match_stocks returns 95 for a dictionary key and any of its
\* aliases, in both argument orders: a level-3 match of a record named by the
\* key with a record named by the alias carries the score 95 in its label.
C12_AliasScores95 ==
  \A m \in 1..Len(matches) :
    (IsLevel(m, Level3Label(0)) /\ IsAliasPair(matches[m].name_ais, matches[m].name_cg))
      => matches[m].type.score = Val(95)

\* The level (1-4) that found match row m, and the input position of the
\* first AIS record it consumed.
LevelOf(m) ==
  IF IsLevel(m, Level1Label) THEN 1
  ELSE IF IsLevel(m, Level2Label) THEN 2
  ELSE IF IsLevel(m, Level3Label(0)) THEN 3
  ELSE 4
FirstAis(m) == CHOOSE a \in used[m].ais : \A b \in used[m].ais : a <= b

\* C13: Match IDs are 1..n in the order of discovery; a match of a lower
\* level has a smaller ID than any match of a higher level; and within one
\* level, level 4 included, IDs increase with the input order of the AIS
\* records matched.
C13_MatchIdOrder ==
  /\ \A m \in 1..Len(matches) : matches[m].id = m
  /\ \A m, n \in 1..Len(matches) :
       m < n =>
         /\ LevelOf(m) <= LevelOf(n)
         /\ LevelOf(m) = LevelOf(n) => FirstAis(m) < FirstAis(n)

\* The sum of the present sales values of the records `ids` of a loaded table.
RECURSIVE SumSv(_, _)
SumSv(ids, data) ==
  IF ids = {} THEN 0
  ELSE LET id == CHOOSE x \in ids : TRUE
       IN (IF IsNA(data[id].sv) THEN 0 ELSE data[id].sv[1]) + SumSv(ids \ {id}, data)

\* C14: in every row of the stored match table the Sales Difference is the
\* row's Sales Value (AIS) minus its Sales Value (CG) (a missing sales value
\* leaves the difference missing); at levels 1-3 the two values are those of
\* the paired records, at level 4 the sums over the two groups.
C14_SalesDifference ==
  pc = "done" =>
    \A m \in 1..Len(mapped_data[1]) :
      LET r == mapped_data[1][m] IN
        /\ r.sales_diff =
             IF IsNA(r.sv_ais) \/ IsNA(r.sv_cg) THEN NA ELSE Val(r.sv_ais[1] - r.sv_cg[1])
        /\ LevelOf(m) = 4 =>
             /\ r.sv_ais = Val(SumSv(used[m].ais, ais_data[1]))
             /\ r.sv_cg = Val(SumSv(used[m].cg, cg_data[1]))
        /\ LevelOf(m) < 4 =>
             /\ r.sv_ais = AisRec(FirstAis(m)).sv
             /\ \E c \in used[m].cg : used[m].cg = {c} /\ r.sv_cg = CgRec(c).sv

\* A completed run with an aggregate row over two CG records whose sales
\* sums differ, the CG side being the larger.
C14_Witness ==
  /\ pc = "done"
  /\ \E m \in 1..Len(mapped_data[1]) :
       /\ LevelOf(m) = 4
       /\ Cardinality(used[m].cg) = 2
       /\ ~IsNA(mapped_data[1][m].sales_diff)
       /\ mapped_data[1][m].sales_diff[1] < 0

\* The rows of the stored match table that carry the AIS stock name `name`,
\* and the sum of the present cells of their column f.
RowsOf(name) ==
  {m \in 1..Len(mapped_data[1]) : mapped_data[1][m].name_ais = Val(name)}

RECURSIVE SumCol(_, _)
SumCol(ms, f) ==
  IF ms = {} THEN 0
  ELSE LET m == CHOOSE x \in ms : TRUE
           cell == mapped_data[1][m][f]
       IN (IF IsNA(cell) THEN 0 ELSE cell[1]) + SumCol(ms \ {m}, f)

\* C15: the stock totals have exactly one row per distinct AIS stock name of
\* the match table, every match row is counted in exactly one totals row, and
\* a totals row holds the sums of its match rows' quantities and sales
\* values, the differences AIS minus CG of those sums, and the distinct match
\* type labels of those rows.
C15_StockTotals ==
  pc = "done" =>
    LET T == stock_totals[1]
        M == mapped_data[1]
    IN /\ \A j, k \in 1..Len(T) : j # k => T[j].name # T[k].name
       /\ \A k \in 1..Len(T) : RowsOf(T[k].name) # {}
       /\ \A m \in 1..Len(M) : \E k \in 1..Len(T) : Val(T[k].name) = M[m].name_ais
       /\ \A k \in 1..Len(T) :
            LET ms == RowsOf(T[k].name) IN
              /\ T[k].ais_qty = SumCol(ms, "qty_ais")
              /\ T[k].cg_qty = SumCol(ms, "qty_cg")
              /\ T[k].qty_diff = SumCol(ms, "qty_ais") - SumCol(ms, "qty_cg")
              /\ T[k].ais_sales = SumCol(ms, "sv_ais")
              /\ T[k].cg_sales = SumCol(ms, "sv_cg")
              /\ T[k].sales_diff = SumCol(ms, "sv_ais") - SumCol(ms, "sv_cg")
              /\ {T[k].match_types[j] : j \in 1..Len(T[k].match_types)}
                   = {M[m].type : m \in ms}
              /\ \A x, y \in 1..Len(T[k].match_types) :
                   x # y => T[k].match_types[x] # T[k].match_types[y]

\* The AIS group level 4 is about to process, the names of the CG groups
\* whose records are still in the CG pool, and the summed quantity of a group.
CurrentGroup == GetGroup(iter, GroupKeys(iter)[i])
LiveCgNames == {GroupKeys(unmatched_cg)[k] : k \in 1..Len(GroupKeys(unmatched_cg))}
GroupQty(group) == SumCells(Column(group, "qty"))
ScoreWith(key) == fuzzy_match_stocks(Val(GroupKeys(iter)[i]), Val(key))

\* Among the CG groups still unmatched, one scores strictly above 85 and no
\* less than every other, and its summed quantity is that of the AIS group.
BestLiveGroupFits ==
  \E key \in LiveCgNames :
    /\ ScoreWith(key) > 85
    /\ \A other \in LiveCgNames : ScoreWith(other) <= ScoreWith(key)
    /\ GroupQty(GetGroup(unmatched_cg, key)) = GroupQty(CurrentGroup)

\* C16: level 4 matches an AIS group in aggregate exactly when the CG group
\* of highest score strictly above 85 among those still unmatched at that
\* moment exists and has the same summed quantity; otherwise all records of
\* the AIS group stay unmatched.
C16_AggregateIffBestFits ==
  [][(pc = "L4" /\ pc' = "L4" /\ i' = i + 1) =>
       /\ (Len(matches') = Len(matches) + 1) <=> BestLiveGroupFits
       /\ ~BestLiveGroupFits => unmatched_ais' = unmatched_ais]_vars

\* The positions of the CG pool that level 3 may pair the AIS row it is
\* about to process with: score strictly above 80 and the same quantity.
ScoreAt(k) == fuzzy_match_stocks(iter[i].clean, unmatched_cg[k].clean)
Level3Candidates ==
  {k \in 1..Len(unmatched_cg) :
     /\ ScoreAt(k) > 80
     /\ ~IsNA(iter[i].qty)
     /\ unmatched_cg[k].qty = iter[i].qty}

\* The candidate no other candidate beats: a higher score, or the same score
\* earlier in the pool.
IsLevel3Choice(k) ==
  /\ k \in Level3Candidates
  /\ \A j \in Level3Candidates :
       ScoreAt(j) < ScoreAt(k) \/ (ScoreAt(j) = ScoreAt(k) /\ k <= j)

SameNameAndQty ==
  {k \in 1..Len(unmatched_cg) :
     /\ ~IsNA(iter[i].clean)
     /\ ~IsNA(iter[i].qty)
     /\ unmatched_cg[k].clean = iter[i].clean
     /\ unmatched_cg[k].qty = iter[i].qty}

\* Of those, the ones whose sale date is present and at most one day from
\* the present sale date of the AIS row.
Level1Eligible ==
  {k \in SameNameAndQty :
     /\ ~IsNA(iter[i].sd)
     /\ ~IsNA(unmatched_cg[k].sd)
     /\ unmatched_cg[k].sd[1] - iter[i].sd[1] \in {-1, 0, 1}}

\* The step appends one match row of the given label that pairs the AIS row
\* with the record of `eligible` that comes first in the CG input order.
PairsEarliest(eligible, label) ==
  \E k \in eligible :
    /\ \A j \in eligible : unmatched_cg[k].ID <= unmatched_cg[j].ID
    /\ Len(matches') = Len(matches) + 1
    /\ matches'[Len(matches')].type = label
    /\ used'[Len(used')] = [ais |-> {iter[i].ID}, cg |-> {unmatched_cg[k].ID}]
    /\ IDsOf(unmatched_cg') = IDsOf(unmatched_cg) \ {unmatched_cg[k].ID}

\* C18: level 1 takes the AIS records in input order and pairs each one
\* that has a sale date with the earliest CG record still unmatched that has
\* the same normalized name, the same quantity and a sale date at most one
\* day away; a record without a sale date, on either side, is not matched at
\* level 1.
C18_Level1Choice ==
  [][(pc = "L1" /\ pc' = "L1" /\ i' = i + 1) =>
       /\ iter[i] = AisRec(i)
       /\ IF Level1Eligible = {}
          THEN matches' = matches /\ unmatched_cg' = unmatched_cg
          ELSE PairsEarliest(Level1Eligible, Level1Label)]_vars

\* A level-1 match across one day, made while a later CG record that was
\* just as eligible stays in the pool.
C18_Witness ==
  \E m \in 1..Len(matches) :
    /\ LevelOf(m) = 1
    /\ matches[m].sd_ais # matches[m].sd_cg
    /\ \E k \in 1..Len(unmatched_cg) :
         /\ \A c \in used[m].cg : c < unmatched_cg[k].ID
         /\ unmatched_cg[k].clean = AisRec(FirstAis(m)).clean
         /\ unmatched_cg[k].qty = matches[m].qty_ais
         /\ unmatched_cg[k].sd = matches[m].sd_cg

\* C19: level 2 pairs each AIS record that level 1 left unmatched with the
\* earliest CG record still unmatched that has the same name and the same
\* quantity, whatever the sale dates; a pair of that name and quantity whose
\* dates are more than a day apart is never made by level 1, and is made by
\* level 2.
C19_Level2Choice ==
  [][/\ (pc = "L2" /\ pc' = "L2" /\ i' = i + 1) =>
          /\ iter[i].ID \notin CoveredAis
          /\ IF SameNameAndQty = {}
             THEN matches' = matches /\ unmatched_cg' = unmatched_cg
             ELSE PairsEarliest(SameNameAndQty, Level2Label)
     /\ (pc = "L1" /\ Len(matches') = Len(matches) + 1) =>
          LET row == matches'[Len(matches')] IN
            /\ ~IsNA(row.sd_ais)
            /\ ~IsNA(row.sd_cg)
            /\ row.sd_cg[1] - row.sd_ais[1] \in {-1, 0, 1}]_vars

\* A level-2 match of two records sold more than a day apart.
C19_Witness ==
  \E m \in 1..Len(matches) :
    /\ LevelOf(m) = 2
    /\ ~IsNA(matches[m].sd_ais)
    /\ ~IsNA(matches[m].sd_cg)
    /\ matches[m].sd_cg[1] - matches[m].sd_ais[1] > 1
    /\ AisRec(FirstAis(m)).clean = CgRec(CHOOSE c \in used[m].cg : TRUE).clean

\* The four result tables as they were when the current press started: those
\* the last press left, or None on a fresh engine.
ResultsBefore ==
  IF history = <<>> THEN <<NA, NA, NA, NA>> ELSE history[Len(history)].results

\* C20: a run that fails, in load_data or anywhere in match_records, leaves
\* the four result tables exactly as they were before it started.
C20_FailedRunKeepsResults ==
  pc = "failed" => results = ResultsBefore

\* A run fails inside the cascade on an engine that holds the match table of
\* an earlier, successful press.
C20_Witness ==
  /\ pc = "failed"
  /\ err.type = "TypeError"
  /\ history # <<>>
  /\ history[Len(history)].pc = "done"
  /\ mapped_data # NA
  /\ mapped_data # Val(<<>>)
  /\ unmatched_cg # <<>>

\* Residual AIS record a and residual CG record c have the same present
\* quantity, and fuzzy_match_stocks scores their normalized names above 80.
LeftOnTable(a, c) ==
  /\ ~IsNA(a.qty)
  /\ a.qty = c.qty
  /\ ~FuzzyRaises(a.clean, c.clean)
  /\ fuzzy_match_stocks(a.clean, c.clean) > 80

\* C21: when a run has completed, no unmatched AIS record and unmatched CG
\* record have equal present quantities and names scoring strictly above 80;
\* in particular none have the same normalized name and the same quantity.
C21_NoMatchLeftOnTable ==
  pc = "done" =>
    \A j \in 1..Len(unmatched_ais), k \in 1..Len(unmatched_cg) :
      /\ ~LeftOnTable(unmatched_ais[j], unmatched_cg[k])
      /\ ~(/\ ~IsNA(unmatched_ais[j].qty)
           /\ unmatched_ais[j].qty = unmatched_cg[k].qty
           /\ unmatched_ais[j].clean = unmatched_cg[k].clean)

\* A completed run leaves an AIS record and a CG record of the same quantity
\* whose names score exactly 80.
C21_Witness ==
  /\ pc = "done"
  /\ \E j \in 1..Len(unmatched_ais), k \in 1..Len(unmatched_cg) :
       /\ ~IsNA(unmatched_ais[j].qty)
       /\ unmatched_ais[j].qty = unmatched_cg[k].qty
       /\ ~FuzzyRaises(unmatched_ais[j].clean, unmatched_cg[k].clean)
       /\ fuzzy_match_stocks(unmatched_ais[j].clean, unmatched_cg[k].clean) = 80

\* C22: every match row, at every level, has a present Quantity (AIS) equal
\* to its Quantity (CG) (the two records' quantities at levels 1-3, the two
\* group sums at level 4); so every row of the stored stock totals has equal
\* quantity sums and a Quantity Difference of zero.
C22_QuantitiesAgree ==
  /\ \A m \in 1..Len(matches) :
       /\ ~IsNA(matches[m].qty_ais)
       /\ matches[m].qty_ais = matches[m].qty_cg
  /\ pc = "done" =>
       /\ \A m \in 1..Len(mapped_data[1]) :
            mapped_data[1][m].qty_ais = mapped_data[1][m].qty_cg
       /\ \A k \in 1..Len(stock_totals[1]) :
            /\ stock_totals[1][k].qty_diff = 0
            /\ stock_totals[1][k].ais_qty = stock_totals[1][k].cg_qty

\* A completed run with an aggregate row summed over two CG records and a
\* stock totals row of positive quantity.
C22_Witness ==
  /\ pc = "done"
  /\ \E m \in 1..Len(matches) :
       /\ LevelOf(m) = 4
       /\ Cardinality(used[m].cg) = 2
       /\ matches[m].qty_ais[1] > 0
  /\ \E k \in 1..Len(stock_totals[1]) : stock_totals[1][k].ais_qty > 0

\* The sum of the present quantities of the records `ids` of a loaded table.
RECURSIVE SumQty(_, _)
SumQty(ids, data) ==
  IF ids = {} THEN 0
  ELSE LET id == CHOOSE x \in ids : TRUE
       IN (IF IsNA(data[id].qty) THEN 0 ELSE data[id].qty[1]) + SumQty(ids \ {id}, data)

\* C23: a record whose quantity is missing is consumed by no match of levels
\* 1-3, on either side; in a level-4 match it adds nothing to its group's
\* summed quantity, which is the sum of the present quantities.
C23_MissingQuantity ==
  pc \in {"L1", "L2", "L3", "L4", "done"} =>
    \A m \in 1..Len(matches) :
      /\ LevelOf(m) < 4 =>
           /\ \A a \in used[m].ais : ~IsNA(AisRec(a).qty)
           /\ \A c \in used[m].cg : ~IsNA(CgRec(c).qty)
      /\ LevelOf(m) = 4 =>
           /\ matches[m].qty_ais = Val(SumQty(used[m].ais, ais_data[1]))
           /\ matches[m].qty_cg = Val(SumQty(used[m].cg, cg_data[1]))

\* A completed run whose aggregate row joins two same-name groups in which
\* every quantity is missing: 0 == 0.
C23_Witness ==
  /\ pc = "done"
  /\ \E m \in 1..Len(matches) :
       /\ LevelOf(m) = 4
       /\ \A a \in used[m].ais : IsNA(AisRec(a).qty)
       /\ \A c \in used[m].cg : IsNA(CgRec(c).qty)
       /\ matches[m].qty_ais = Val(0)
       /\ matches[m].qty_cg = Val(0)

====
